---- MODULE Spec2Model ----
(***************************************************************************)
(* html2pdf: ConvertHtmlFileToPdf / ConvertHtmlToPdf (html2pdf.go) driving  *)
(* a browser session through chromedp.  Each caller is a goroutine calling  *)
(* one of the two entry points; the browser, the file system and the        *)
(* caller's context are the environment.                                    *)
(***************************************************************************)
EXTENDS Integers, Sequences, FiniteSets, TLC

\* ------------------------------------------------------------------ bounds
\* Load events a session's page may fire beyond the one of the injection
\* (a document that reloads itself).
MaxExtraLoads == 1
\* Longest option list a caller passes.
MaxOpts == 2

\* ------------------------------------------------------------------ values
Callers == {"main", "ref"}
\* A call holds at most one session, so there are never more sessions than
\* callers.
SessionIds == 1..Cardinality(Callers)
NoSession == 0

Reloading == "<meta http-equiv=refresh>"
HTMLs == {"", "<h1>A</h1>", Reloading}
\* A document that loads itself again fires further load events.
Reloads(d) == d = Reloading
Paths == {"page.html", "missing.html", "locked.html"}
Blank == "about:blank"
NoDoc == "(no page)"

\* Logging sinks: the default is log.Printf; a caller passes nil or its own.
LogPrintf == "log.Printf"
NilLogger == "nil"
Loggers == {NilLogger, "custom"}

Nil == << >>
NoErr == << >>

LoadEventFired == "Page.loadEventFired"
DomContentEventFired == "Page.domContentEventFired"

\* ------------------------------------------------------------------ errors
\* An error is its chain, outermost message first; the nil error is << >>.
ErrHTMLFileNotFound == << <<"html file not found">> >>
ENOENT == << <<"open", "no such file or directory">> >>
EACCES == << <<"open", "permission denied">> >>
CtxErr == << <<"context canceled or deadline exceeded">> >>
ErrExecNotFound == << <<"exec: chrome not found">> >>
ErrChannelClosed == << <<"channel closed">> >>

\* Mutant: the cause is formatted into the message (%v), not wrapped.
WrapfDropsCause(msg, err) == <<msg>>

\* fmt.Errorf(msg + ": %w", err)
Wrapf(msg, err) == <<msg>> \o err

\* errors.Is(err, target) for a single-frame target
ErrorsIs(err, target) == \E i \in 1..Len(err) : err[i] = target[1]

\* Mutant: every read failure is taken for a missing file.
IsNotExistAny(err) == err # NoErr

\* os.IsNotExist
IsNotExist(err) == err = ENOENT

\* ------------------------------------------------------------------ files
\* os.ReadFile on the three kinds of path: a readable file, a missing one,
\* one that exists and cannot be read.
ReadFile(path) ==
    CASE path = "page.html" -> [b |-> "<h1>A</h1>", err |-> NoErr]
      [] path = "missing.html" -> [b |-> "", err |-> ENOENT]
      [] OTHER -> [b |-> "", err |-> EACCES]

\* ------------------------------------------------------------------ options
\* type options struct { logger }
getDefaultOptions == [logger |-> LogPrintf]

\* Mutant: a nil logger is ignored and the sink set before is kept.
WithLoggerSkipsNil(logger, o) ==
    IF logger = NilLogger THEN o ELSE [o EXCEPT !.logger = logger]

\* WithLogger(logger) applied to o
WithLogger(logger, o) == [o EXCEPT !.logger = logger]

\* for _, opt := range opts { opt(options) }
RECURSIVE ApplyOptions(_, _)
ApplyOptions(o, opts) ==
    IF opts = << >> THEN o
    ELSE ApplyOptions(WithLogger(Head(opts), o), Tail(opts))

OptLists == UNION {[1..n -> Loggers] : n \in 0..MaxOpts}

\* ------------------------------------------------------------------ browser
\* What Page.printToPDF returns for a document: the PDF of that document.
PdfOf(d) == <<"%PDF", d>>
Garbage == <<"partial">>

Cmd(name, s, payload) == <<name, s, payload>>

VARIABLES
    pc,          \* where each caller is in its call
    args,        \* the arguments of the caller's current call
    ctxDone,     \* the caller-supplied context is cancelled or expired
    htmlContent, \* ConvertHtmlToPdf's htmlContent parameter
    opts,        \* ConvertHtmlToPdf's opts parameter
    options,     \* ConvertHtmlToPdf's options
    sid,         \* the browser session (target) of the call's chromedp context
    wg,          \* the WaitGroup counter
    listening,   \* the ListenTarget callback is registered
    buf,         \* ConvertHtmlToPdf's buf
    ret,         \* what the call returned: [bytes, err]
    cmds,        \* protocol commands the call has issued
    logged,      \* the call's sink has received diagnostic output
    live,        \* browser sessions that exist
    doc,         \* each session's document
    queue,       \* each session's events not yet dispatched
    debugf,      \* the diagnostic sink of the call's chromedp context
    extra,       \* extra load events each session has fired
    resp,        \* what the environment answered the call, step by step
    phase,       \* the phase of the call in which chromedp.Run ended
    program,     \* the client program: one caller, or a pair of callers
    earlier,     \* how the calls each caller has made so far ended
    crashed      \* the process has panicked

vars == <<pc, args, ctxDone, htmlContent, opts, options, sid, wg, listening,
          buf, ret, cmds, logged, live, doc, queue, debugf, extra, resp,
          phase, program, earlier, crashed>>

browserVars == <<live, doc, queue, extra>>

NoArgs == [entry |-> "none", path |-> "", html |-> "", opts |-> << >>, done |-> FALSE]
NoRet == [bytes |-> Nil, err |-> NoErr]

\* ------------------------------------------------------------------ inputs
\* The program "single" has one goroutine, main, which makes calls with any
\* input.  The program "pair" runs main beside a reference call, ref:
\* ConvertHtmlToPdf of one page with no options; main then converts the
\* file holding that page, or another page, with WithLogger(nil), and both
\* start with a live context.  The environment (browser, cancellation) is
\* unrestricted in both programs.
Reference == "ref"
CallersOf(prog) == IF prog = "single" THEN Callers \ {Reference} ELSE Callers
HTMLsOf(c) ==
    IF c = Reference THEN {"<h1>A</h1>"}
    ELSE IF program = "pair" THEN {"", Reloading} ELSE HTMLs
PathsOf(c) ==
    IF c = Reference THEN {}
    ELSE IF program = "pair" THEN {"page.html"} ELSE Paths
OptListsOf(c) ==
    IF c = Reference THEN {<< >>}
    ELSE IF program = "pair" THEN {<<NilLogger>>} ELSE OptLists
DoneOf(c) == IF c = Reference \/ program = "pair" THEN {FALSE} ELSE BOOLEAN

InitCalls ==
    /\ pc = [c \in Callers |-> "idle"]
    /\ args = [c \in Callers |-> NoArgs]
    /\ ctxDone = [c \in Callers |-> FALSE]
    /\ htmlContent = [c \in Callers |-> ""]
    /\ opts = [c \in Callers |-> << >>]
    /\ options = [c \in Callers |-> getDefaultOptions]
    /\ sid = [c \in Callers |-> NoSession]
    /\ wg = [c \in Callers |-> 0]
    /\ listening = [c \in Callers |-> FALSE]
    /\ buf = [c \in Callers |-> Nil]
    /\ ret = [c \in Callers |-> NoRet]
    /\ cmds = [c \in Callers |-> << >>]
    /\ logged = [c \in Callers |-> FALSE]
    /\ live = {}
    /\ doc = [s \in SessionIds |-> NoDoc]
    /\ queue = [s \in SessionIds |-> << >>]
    /\ debugf = [c \in Callers |-> NilLogger]
    /\ extra = [s \in SessionIds |-> 0]
    /\ resp = [c \in Callers |-> << >>]
    /\ phase = [c \in Callers |-> "none"]
    /\ earlier = [c \in Callers |-> {}]
    /\ crashed = FALSE

Init == InitCalls /\ program = "single"
InitPair == InitCalls /\ program = "pair"

\* ------------------------------------------------------------------ calls
InFlight(c) == pc[c] \notin {"idle", "returned"}

\* The caller whose chromedp context holds session s.
Owner(s) == CHOOSE c \in Callers : sid[c] = s

\* The sessions that no context holds.
Unused == SessionIds \ (live \cup {sid[c] : c \in Callers})

\* Mutant: every call drives the same target.
SharedSession == CHOOSE s \in SessionIds : \A t \in SessionIds : s <= t

\* The session a new target gets.
FreeSession == CHOOSE s \in Unused : \A t \in Unused : s <= t

\* Mutant: the sink is called without the nil check.
HasSinkUnchecked(f) == TRUE

\* chromedp writes a line to the sink for every message the session
\* exchanges, if the sink is not nil.
HasSink(f) == f # NilLogger
\* Calling a nil func panics.
SinkPanics(c) == HasSink(debugf[c]) /\ debugf[c] = NilLogger
Debugf(c) == [logged EXCEPT ![c] = @ \/ HasSink(debugf[c])]

\* Mutant: the completion counter is a package-level variable, which a new
\* call finds as the last one left it.
EnterKeepsCounter(c, a, html, o, to) ==
    /\ ~crashed
    /\ pc[c] \in {"idle", "returned"}
    /\ args' = [args EXCEPT ![c] = a]
    /\ ctxDone' = [ctxDone EXCEPT ![c] = a.done]
    /\ htmlContent' = [htmlContent EXCEPT ![c] = html]
    /\ opts' = [opts EXCEPT ![c] = o]
    /\ options' = [options EXCEPT ![c] = getDefaultOptions]
    /\ debugf' = [debugf EXCEPT ![c] = NilLogger]
    /\ sid' = [sid EXCEPT ![c] = NoSession]
    /\ listening' = [listening EXCEPT ![c] = FALSE]
    /\ buf' = [buf EXCEPT ![c] = Nil]
    /\ cmds' = [cmds EXCEPT ![c] = << >>]
    /\ logged' = [logged EXCEPT ![c] = FALSE]
    /\ resp' = [resp EXCEPT ![c] = << >>]
    /\ phase' = [phase EXCEPT ![c] = "none"]
    /\ pc' = [pc EXCEPT ![c] = to]
    /\ UNCHANGED <<wg, browserVars, program, earlier, crashed>>

\* A new call of caller c: fresh parameters and locals.
Enter(c, a, html, o, to) ==
    /\ ~crashed
    /\ pc[c] \in {"idle", "returned"}
    /\ args' = [args EXCEPT ![c] = a]
    /\ ctxDone' = [ctxDone EXCEPT ![c] = a.done]
    /\ htmlContent' = [htmlContent EXCEPT ![c] = html]
    /\ opts' = [opts EXCEPT ![c] = o]
    /\ options' = [options EXCEPT ![c] = getDefaultOptions]
    /\ debugf' = [debugf EXCEPT ![c] = NilLogger]
    /\ sid' = [sid EXCEPT ![c] = NoSession]
    /\ wg' = [wg EXCEPT ![c] = 0]
    /\ listening' = [listening EXCEPT ![c] = FALSE]
    /\ buf' = [buf EXCEPT ![c] = Nil]
    /\ cmds' = [cmds EXCEPT ![c] = << >>]
    /\ logged' = [logged EXCEPT ![c] = FALSE]
    /\ resp' = [resp EXCEPT ![c] = << >>]
    /\ phase' = [phase EXCEPT ![c] = "none"]
    /\ pc' = [pc EXCEPT ![c] = to]
    /\ UNCHANGED <<browserVars, program, earlier, crashed>>

\* How a call of ConvertHtmlToPdf ended, as its caller sees it.
OutcomeClass(r) ==
    IF r.err = NoErr THEN "ok"
    ELSE IF ErrorsIs(r.err, CtxErr) THEN "cancelled" ELSE "failed"

\* The sequential program keeps, for the claims about successive calls, how
\* the calls made so far ended.
Record(c, r) ==
    IF program = "single"
    THEN [earlier EXCEPT ![c] = @ \cup {OutcomeClass(r)}]
    ELSE earlier

\* Mutant: buf is returned beside the error.
ReturnKeepsBuf(b, err) ==
    IF err # NoErr
    THEN [bytes |-> b, err |-> Wrapf(<<"failed to convert HTML to PDF">>, err)]
    ELSE [bytes |-> b, err |-> NoErr]

\* return nil, fmt.Errorf(...) / return buf, nil
Return(b, err) ==
    IF err # NoErr
    THEN [bytes |-> Nil, err |-> Wrapf(<<"failed to convert HTML to PDF">>, err)]
    ELSE [bytes |-> b, err |-> NoErr]

\* What ConvertHtmlFileToPdf returns when the file cannot be read.
ReadFailure(fileName, err) ==
    IF IsNotExist(err)
    THEN [bytes |-> Nil, err |-> ErrHTMLFileNotFound]
    ELSE [bytes |-> Nil, err |-> Wrapf(<<"failed to read file", fileName>>, err)]

\* Mutant: the options are not passed on.
DelegateDropsOpts(b, o) == [html |-> b, opts |-> << >>]

\* return ConvertHtmlToPdf(ctx, string(b), opts...): the arguments passed on.
Delegate(b, o) == [html |-> b, opts |-> o]

\* ConvertHtmlFileToPdf(ctx, fileName, opts...): read the file; on failure
\* return, otherwise enter ConvertHtmlToPdf with its content.
ConvertHtmlFileToPdf(c) ==
    \E fileName \in PathsOf(c), o \in OptListsOf(c), done \in DoneOf(c) :
        LET r == ReadFile(fileName)
            a == [entry |-> "file", path |-> fileName, html |-> r.b,
                  opts |-> o, done |-> done]
            d == Delegate(r.b, o)
        IN \/ /\ r.err # NoErr
              /\ Enter(c, a, "", << >>, "returned")
              /\ ret' = [ret EXCEPT ![c] = ReadFailure(fileName, r.err)]
           \/ /\ r.err = NoErr
              /\ Enter(c, a, d.html, d.opts, "Options")
              /\ ret' = [ret EXCEPT ![c] = NoRet]

\* ConvertHtmlToPdf(ctx, htmlContent, opts...) called directly.
ConvertHtmlToPdf(c) ==
    \E html \in HTMLsOf(c), o \in OptListsOf(c), done \in DoneOf(c) :
        /\ Enter(c, [entry |-> "content", path |-> "", html |-> html,
                     opts |-> o, done |-> done], html, o, "Options")
        /\ ret' = [ret EXCEPT ![c] = NoRet]

\* options := getDefaultOptions(); for _, opt := range opts { opt(options) }
MergeOptions(c) ==
    /\ ~crashed
    /\ pc[c] = "Options"
    /\ options' = [options EXCEPT ![c] = ApplyOptions(getDefaultOptions, opts[c])]
    /\ pc' = [pc EXCEPT ![c] = "NewContext"]
    /\ UNCHANGED <<args, ctxDone, htmlContent, opts, sid, wg, listening, buf,
                   ret, cmds, logged, debugf, resp, phase, browserVars,
                   program, earlier, crashed>>

\* ctx, cancel := chromedp.NewContext(ctx, chromedp.WithDebugf(options.logger))
NewContext(c) ==
    /\ ~crashed
    /\ pc[c] = "NewContext"
    /\ debugf' = [debugf EXCEPT ![c] = options[c].logger]
    /\ pc' = [pc EXCEPT ![c] = "Run"]
    /\ UNCHANGED <<args, ctxDone, htmlContent, opts, options, sid, wg,
                   listening, buf, ret, cmds, logged, resp, phase,
                   browserVars, program, earlier, crashed>>

\* Mutant: the error of an action is dropped and the run goes on to the
\* print.
RunGoesOn(c, b, err, ph, answer) ==
    /\ ret' = [ret EXCEPT ![c] = Return(b, err)]
    /\ phase' = [phase EXCEPT ![c] = ph]
    /\ resp' = [resp EXCEPT ![c] = Append(@, answer)]
    /\ pc' = [pc EXCEPT ![c] = IF Len(resp[c]) < 4 THEN "PrintToPDF" ELSE "Defer"]

\* chromedp.Run returns: the remaining actions are skipped and the
\* function's result is fixed (the deferred cancel is still to run).
RunReturns(c, b, err, ph, answer) ==
    /\ ret' = [ret EXCEPT ![c] = Return(b, err)]
    /\ phase' = [phase EXCEPT ![c] = ph]
    /\ resp' = [resp EXCEPT ![c] = Append(@, answer)]
    /\ pc' = [pc EXCEPT ![c] = "Defer"]

\* A step of Run that succeeds and goes on to the next.
Goes(c, to) ==
    /\ resp' = [resp EXCEPT ![c] = Append(@, "ok")]
    /\ pc' = [pc EXCEPT ![c] = to]
    /\ UNCHANGED <<ret, phase>>

\* chromedp.Run: the first Run on the context allocates the browser and
\* the target.  A context that is already done fails the allocation.
Run(c) ==
    /\ ~crashed
    /\ pc[c] = "Run"
    /\ \/ /\ ctxDone[c]
          /\ RunReturns(c, buf[c], CtxErr, "setup", "ctx")
          /\ UNCHANGED <<sid, browserVars>>
       \/ /\ ~ctxDone[c]
          /\ \/ RunReturns(c, buf[c], ErrExecNotFound, "setup", "no browser")
             \/ RunReturns(c, buf[c], ErrChannelClosed, "setup", "closed")
          /\ UNCHANGED <<sid, browserVars>>
       \/ /\ ~ctxDone[c]
          /\ Unused # {}
          /\ LET s == FreeSession IN
                /\ sid' = [sid EXCEPT ![c] = s]
                /\ live' = live \cup {s}
                /\ doc' = [doc EXCEPT ![s] = Blank]
                /\ queue' = [queue EXCEPT ![s] = << >>]
                /\ extra' = [extra EXCEPT ![s] = 0]
          /\ Goes(c, "Navigate")
    /\ UNCHANGED <<args, ctxDone, htmlContent, opts, options, wg, listening,
                   buf, cmds, logged, debugf, program, earlier, crashed>>

\* A protocol command on a context that is done returns the context's
\* error; the command may or may not have been written to the connection.
Cancelled(c, cmd, ph) ==
    /\ ctxDone[c]
    /\ \/ /\ cmds' = [cmds EXCEPT ![c] = Append(@, cmd)]
          /\ RunReturns(c, buf[c], CtxErr, ph, "ctx, sent")
       \/ /\ UNCHANGED cmds
          /\ RunReturns(c, buf[c], CtxErr, ph, "ctx")

\* The browser answers a command with an error.
Refused(c, cmd, ph) ==
    /\ ~ctxDone[c]
    /\ cmds' = [cmds EXCEPT ![c] = Append(@, cmd)]
    /\ RunReturns(c, buf[c], ErrChannelClosed, ph, "closed")

\* Mutant: Navigate returns when the command is answered, with the load
\* event of the blank page still to come.
NavigateNoWait(c) ==
    LET s == sid[c]
        cmd == Cmd("Page.navigate", s, Blank)
    IN /\ ~crashed
       /\ pc[c] = "Navigate"
       /\ \/ Cancelled(c, cmd, "setup") /\ UNCHANGED <<doc, queue>>
          \/ Refused(c, cmd, "setup") /\ UNCHANGED <<doc, queue>>
          \/ /\ ~ctxDone[c]
             /\ cmds' = [cmds EXCEPT ![c] = Append(@, cmd)]
             /\ doc' = [doc EXCEPT ![s] = Blank]
             /\ queue' = [queue EXCEPT ![s] = Append(@, LoadEventFired)]
             /\ Goes(c, "Listen")
       /\ logged' = Debugf(c)
       /\ crashed' = SinkPanics(c)
       /\ UNCHANGED <<args, ctxDone, htmlContent, opts, options, sid, wg,
                      listening, buf, debugf, live, extra, program, earlier>>

\* chromedp.Navigate("about:blank"): Page.navigate, then wait for the
\* page's load event.
Navigate(c) ==
    LET s == sid[c]
        cmd == Cmd("Page.navigate", s, Blank)
    IN /\ ~crashed
       /\ pc[c] = "Navigate"
       /\ \/ Cancelled(c, cmd, "setup") /\ UNCHANGED <<doc, queue>>
          \/ Refused(c, cmd, "setup") /\ UNCHANGED <<doc, queue>>
          \/ /\ ~ctxDone[c]
             /\ cmds' = [cmds EXCEPT ![c] = Append(@, cmd)]
             /\ doc' = [doc EXCEPT ![s] = Blank]
             /\ queue' = [queue EXCEPT ![s] = Append(@, LoadEventFired)]
             /\ Goes(c, "NavWait")
       /\ logged' = Debugf(c)
       /\ crashed' = SinkPanics(c)
       /\ UNCHANGED <<args, ctxDone, htmlContent, opts, options, sid, wg,
                      listening, buf, debugf, live, extra, program, earlier>>

\* Navigate's wait for the load event ends with the context.
NavigateCancelled(c) ==
    /\ ~crashed
    /\ pc[c] = "NavWait"
    /\ ctxDone[c]
    /\ RunReturns(c, buf[c], CtxErr, "setup", "ctx, waiting")
    /\ UNCHANGED <<args, ctxDone, htmlContent, opts, options, sid, wg,
                   listening, buf, cmds, logged, debugf, browserVars,
                   program, earlier, crashed>>

\* Mutant: the listener is not registered before the commands are issued.
ListenTargetMissing(c) ==
    /\ ~crashed
    /\ pc[c] = "Listen"
    /\ wg' = [wg EXCEPT ![c] = @ + 1]
    /\ pc' = [pc EXCEPT ![c] = "GetFrameTree"]
    /\ UNCHANGED <<args, ctxDone, htmlContent, opts, options, sid, buf, ret,
                   cmds, logged, debugf, resp, phase, browserVars, program, earlier,
                   listening, crashed>>

\* var wg sync.WaitGroup; wg.Add(1); chromedp.ListenTarget(ctx, ...)
ListenTarget(c) ==
    /\ ~crashed
    /\ pc[c] = "Listen"
    /\ wg' = [wg EXCEPT ![c] = @ + 1]
    /\ listening' = [listening EXCEPT ![c] = TRUE]
    /\ pc' = [pc EXCEPT ![c] = "GetFrameTree"]
    /\ UNCHANGED <<args, ctxDone, htmlContent, opts, options, sid, buf, ret,
                   cmds, logged, debugf, resp, phase, browserVars, program, earlier,
                   crashed>>

\* frameTree, err := page.GetFrameTree().Do(ctx)
GetFrameTree(c) ==
    LET cmd == Cmd("Page.getFrameTree", sid[c], "")
    IN /\ ~crashed
       /\ pc[c] = "GetFrameTree"
       /\ \/ Cancelled(c, cmd, "inject")
          \/ Refused(c, cmd, "inject")
          \/ /\ ~ctxDone[c]
             /\ cmds' = [cmds EXCEPT ![c] = Append(@, cmd)]
             /\ Goes(c, "SetDocumentContent")
       /\ logged' = Debugf(c)
       /\ crashed' = SinkPanics(c)
       /\ UNCHANGED <<args, ctxDone, htmlContent, opts, options, sid, wg,
                      listening, buf, debugf, browserVars, program, earlier>>

\* page.SetDocumentContent(frameTree.Frame.ID, htmlContent).Do(ctx): the
\* browser replaces the document and fires the events of its load.
SetDocumentContent(c) ==
    LET s == sid[c]
        cmd == Cmd("Page.setDocumentContent", s, htmlContent[c])
    IN /\ ~crashed
       /\ pc[c] = "SetDocumentContent"
       /\ \/ Cancelled(c, cmd, "inject") /\ UNCHANGED <<doc, queue>>
          \/ Refused(c, cmd, "inject") /\ UNCHANGED <<doc, queue>>
          \/ /\ ~ctxDone[c]
             /\ cmds' = [cmds EXCEPT ![c] = Append(@, cmd)]
             /\ doc' = [doc EXCEPT ![s] = htmlContent[c]]
             /\ queue' = [queue EXCEPT ![s] =
                            @ \o <<DomContentEventFired, LoadEventFired>>]
             /\ Goes(c, "Wait")
       /\ logged' = Debugf(c)
       /\ crashed' = SinkPanics(c)
       /\ UNCHANGED <<args, ctxDone, htmlContent, opts, options, sid, wg,
                      listening, buf, debugf, live, extra, program, earlier>>

\* Mutant: the action does not wait for the counter.
WaitNoBlock(c) ==
    /\ ~crashed
    /\ pc[c] = "Wait"
    /\ pc' = [pc EXCEPT ![c] = "PrintToPDF"]
    /\ UNCHANGED <<args, ctxDone, htmlContent, opts, options, sid, wg,
                   listening, buf, ret, cmds, logged, debugf, resp, phase,
                   browserVars, program, earlier, crashed>>

\* wg.Wait(): returns once the counter is zero.
Wait(c) ==
    /\ ~crashed
    /\ pc[c] = "Wait"
    /\ wg[c] = 0
    /\ pc' = [pc EXCEPT ![c] = "PrintToPDF"]
    /\ UNCHANGED <<args, ctxDone, htmlContent, opts, options, sid, wg,
                   listening, buf, ret, cmds, logged, debugf, resp, phase,
                   browserVars, program, earlier, crashed>>

\* buf, _, err = page.PrintToPDF().WithPrintBackground(false).Do(ctx);
\* it is the last action, so Run returns its err.
PrintToPDF(c) ==
    LET s == sid[c]
        cmd == Cmd("Page.printToPDF", s, "")
    IN /\ ~crashed
       /\ pc[c] = "PrintToPDF"
       /\ \/ /\ Cancelled(c, cmd, "print")
             /\ buf' = [buf EXCEPT ![c] = Nil]
          \/ /\ ~ctxDone[c]
             /\ cmds' = [cmds EXCEPT ![c] = Append(@, cmd)]
             /\ \/ /\ buf' = [buf EXCEPT ![c] = Nil]
                   /\ RunReturns(c, Nil, ErrChannelClosed, "print", "closed")
                \/ /\ buf' = [buf EXCEPT ![c] = Garbage]
                   /\ RunReturns(c, Garbage, ErrChannelClosed, "print",
                                 "closed, partial")
          \/ /\ ~ctxDone[c]
             /\ cmds' = [cmds EXCEPT ![c] = Append(@, cmd)]
             /\ buf' = [buf EXCEPT ![c] = PdfOf(doc[s])]
             /\ RunReturns(c, PdfOf(doc[s]), NoErr, "done", "ok")
       /\ logged' = Debugf(c)
       /\ crashed' = SinkPanics(c)
       /\ UNCHANGED <<args, ctxDone, htmlContent, opts, options, sid, wg,
                      listening, debugf, browserVars, program, earlier>>

\* Mutant: the function returns without the deferred cancel.
ReturnsWithoutCancel(c) ==
    /\ ~crashed
    /\ pc[c] = "Defer"
    /\ sid' = [sid EXCEPT ![c] = NoSession]
    /\ listening' = [listening EXCEPT ![c] = FALSE]
    /\ pc' = [pc EXCEPT ![c] = "returned"]
    /\ UNCHANGED <<args, ctxDone, htmlContent, opts, options, wg, buf, ret,
                   cmds, logged, debugf, resp, phase, browserVars, program, earlier,
                   crashed>>

\* defer cancel(): cancel the chromedp context and wait until the target
\* is closed and the browser has stopped; then the function returns and
\* its context is gone.
DeferCancel(c) ==
    /\ ~crashed
    /\ pc[c] = "Defer"
    /\ live' = live \ {sid[c]}
    /\ queue' = [s \in SessionIds |-> IF s = sid[c] THEN << >> ELSE queue[s]]
    /\ sid' = [sid EXCEPT ![c] = NoSession]
    /\ listening' = [listening EXCEPT ![c] = FALSE]
    /\ pc' = [pc EXCEPT ![c] = "returned"]
    /\ earlier' = Record(c, ret[c])
    /\ UNCHANGED <<args, ctxDone, htmlContent, opts, options, wg, buf, ret,
                   cmds, logged, debugf, resp, phase, doc, extra, program,
                   crashed>>

\* ------------------------------------------------------------------ environment
\* The callback of html2pdf.go:68-72 on event ev: wg.Done() on a load event.
IsLoadEventFired(ev) == ev = LoadEventFired

\* The target's event loop dispatches the next event of session s to the
\* listeners registered on it: Navigate's own while it waits, and the
\* call's callback.  A WaitGroup counter that would go negative panics.
Dispatch(s) ==
    LET c == Owner(s)
        ev == Head(queue[s])
        done == listening[c] /\ IsLoadEventFired(ev)
    IN /\ ~crashed
       /\ s \in live
       /\ queue[s] # << >>
       /\ queue' = [queue EXCEPT ![s] = Tail(@)]
       /\ wg' = [wg EXCEPT ![c] = IF done THEN @ - 1 ELSE @]
       /\ crashed' = ((done /\ wg[c] = 0) \/ SinkPanics(c))
       /\ pc' = [pc EXCEPT ![c] =
                   IF @ = "NavWait" /\ ev = LoadEventFired THEN "Listen" ELSE @]
       /\ logged' = Debugf(c)
       /\ UNCHANGED <<args, ctxDone, htmlContent, opts, options, sid,
                      listening, buf, ret, cmds, debugf, resp, phase, live,
                      doc, extra, program, earlier>>

\* The injected document loads itself again.
ExtraLoad(s) ==
    /\ ~crashed
    /\ s \in live
    /\ Reloads(doc[s])
    /\ extra[s] < MaxExtraLoads
    /\ extra' = [extra EXCEPT ![s] = @ + 1]
    /\ queue' = [queue EXCEPT ![s] = Append(@, LoadEventFired)]
    /\ UNCHANGED <<pc, args, ctxDone, htmlContent, opts, options, sid, wg,
                   listening, buf, ret, cmds, logged, debugf, resp, phase,
                   live, doc, program, earlier, crashed>>

\* The caller cancels the context it passed, or its deadline passes.
CtxCancel(c) ==
    /\ ~crashed
    /\ InFlight(c)
    /\ ~ctxDone[c]
    /\ ctxDone' = [ctxDone EXCEPT ![c] = TRUE]
    /\ UNCHANGED <<pc, args, htmlContent, opts, options, sid, wg, listening,
                   buf, ret, cmds, logged, debugf, resp, phase, browserVars,
                   program, earlier, crashed>>

\* The chromedp context is done with its parent: the browser is killed and
\* the target's event loop stops, whatever the call is doing.
Teardown(c) ==
    /\ ~crashed
    /\ ctxDone[c]
    /\ sid[c] \in live
    /\ live' = live \ {sid[c]}
    /\ queue' = [queue EXCEPT ![sid[c]] = << >>]
    /\ UNCHANGED <<pc, args, ctxDone, htmlContent, opts, options, sid, wg,
                   listening, buf, ret, cmds, logged, debugf, resp, phase,
                   doc, extra, program, earlier, crashed>>

Next ==
    \/ \E c \in CallersOf(program) : ConvertHtmlFileToPdf(c)
    \/ \E c \in CallersOf(program) : ConvertHtmlToPdf(c)
    \/ \E c \in CallersOf(program) : MergeOptions(c)
    \/ \E c \in CallersOf(program) : NewContext(c)
    \/ \E c \in CallersOf(program) : Run(c)
    \/ \E c \in CallersOf(program) : Navigate(c)
    \/ \E c \in CallersOf(program) : NavigateCancelled(c)
    \/ \E c \in CallersOf(program) : ListenTarget(c)
    \/ \E c \in CallersOf(program) : GetFrameTree(c)
    \/ \E c \in CallersOf(program) : SetDocumentContent(c)
    \/ \E c \in CallersOf(program) : Wait(c)
    \/ \E c \in CallersOf(program) : PrintToPDF(c)
    \/ \E c \in CallersOf(program) : DeferCancel(c)
    \/ \E s \in live : Dispatch(s)
    \/ \E s \in live : ExtraLoad(s)
    \/ \E c \in CallersOf(program) : CtxCancel(c)
    \/ \E c \in CallersOf(program) : Teardown(c)

\* One goroutine making calls one after another, with any input.
Spec == Init /\ [][Next]_vars

\* A call beside a reference call.
PairSpec == InitPair /\ [][Next]_vars

\* ------------------------------------------------------------------ helpers
Returned(c) == pc[c] = "returned"
\* The call went through ConvertHtmlToPdf (it did not end at the file read).
Converted(c) ==
    /\ pc[c] # "idle"
    /\ \/ args[c].entry = "content"
       \/ args[c].entry = "file" /\ ReadFile(args[c].path).err = NoErr
Range(q) == {q[i] : i \in 1..Len(q)}
Last(q) == q[Len(q)]
CmdNames(q) == [i \in 1..Len(q) |-> q[i][1]]
IsPdf(b) == Len(b) > 0 /\ b[1] = "%PDF"

\* ------------------------------------------------------------------ C1
\* C1: a call that has returned has either a nil error and a non-empty
\* %PDF-prefixed result, or a non-nil error and no bytes.
C1_OutcomeShape ==
    \A c \in Callers :
        Returned(c) =>
            \/ ret[c].err = NoErr /\ IsPdf(ret[c].bytes)
            \/ ret[c].err # NoErr /\ ret[c].bytes = Nil

\* A conversion of the empty page came back from a failed print that had
\* left bytes in buf.
C1_Witness ==
    \E c \in Callers :
        /\ Returned(c) /\ args[c].html = ""
        /\ buf[c] = Garbage /\ ret[c].err # NoErr

\* ------------------------------------------------------------------ C2
\* C2: a call blocked in wg.Wait() whose context is done, and whose session
\* has been torn down with it, can leave the wait: some step of the program
\* takes it out of wg.Wait().
C2_CancelUnblocksWait ==
    \A c \in Callers :
        (pc[c] = "Wait" /\ ctxDone[c] /\ sid[c] \notin live /\ ~crashed)
            => ENABLED (Next /\ pc'[c] # "Wait")

\* ------------------------------------------------------------------ C3
\* C3: a call whose context was done when it started issues no protocol
\* command and acquires no session, and returns no bytes and an error whose
\* chain holds the context's error.
C3_DoneContext ==
    \A c \in Callers :
        (Converted(c) /\ args[c].done) =>
            /\ cmds[c] = << >>
            /\ sid[c] = NoSession
            /\ Returned(c) =>
                  /\ ret[c].bytes = Nil
                  /\ ret[c].err # NoErr
                  /\ ErrorsIs(ret[c].err, CtxErr)

C3_Witness ==
    \E c \in Callers : Returned(c) /\ Converted(c) /\ args[c].done

\* ------------------------------------------------------------------ C4
\* C4: every session that exists is held by exactly one call in flight, and
\* calls in flight hold different sessions: no session outlives its call.
C4_SessionScoped ==
    /\ \A s \in live : \E c \in Callers : InFlight(c) /\ sid[c] = s
    /\ \A c \in Callers : ~InFlight(c) => sid[c] = NoSession
    /\ \A c1, c2 \in Callers :
          (c1 # c2 /\ sid[c1] # NoSession) => sid[c1] # sid[c2]

\* Both calls have returned, one with a PDF and one with an error, after
\* both held a session at once.
C4_Witness ==
    /\ \A c \in Callers : Returned(c) /\ Len(resp[c]) > 1
    /\ \E c \in Callers : ret[c].err = NoErr
    /\ \E c \in Callers : ret[c].err # NoErr
    /\ live = {}

\* ------------------------------------------------------------------ C5
\* C5: the listener is registered whenever the content-set command is or
\* has been issued by a call in flight, and the load event of the injection
\* is never lost: once it has been dispatched the wait is released.
C5_ListenBeforeInject ==
    \A c \in Callers :
        /\ pc[c] \in {"GetFrameTree", "SetDocumentContent", "Wait"}
              => listening[c]
        /\ (InFlight(c) /\ "Page.setDocumentContent" \in Range(CmdNames(cmds[c])))
              => listening[c]
        /\ (pc[c] = "Wait" /\ sid[c] \in live
               /\ LoadEventFired \notin Range(queue[sid[c]]))
              => wg[c] <= 0

\* The load event of the injection has been dispatched to a call at the
\* wait, which can go on.
C5_Witness ==
    \E c \in Callers :
        /\ pc[c] = "Wait" /\ sid[c] \in live /\ queue[sid[c]] = << >>
        /\ wg[c] = 0 /\ ~crashed

\* ------------------------------------------------------------------ C6
\* C6: a call's commands go to its own session and carry its own HTML, its
\* session's document is the blank page or its own HTML, its options come
\* from its own option list, and the PDF it returns is that of its own HTML.
C6_NoCrossTalk ==
    \A c \in Callers :
        /\ InFlight(c) =>
              \A i \in 1..Len(cmds[c]) :
                  /\ cmds[c][i][2] = sid[c]
                  /\ cmds[c][i][1] = "Page.setDocumentContent"
                        => cmds[c][i][3] = args[c].html
        /\ (InFlight(c) /\ sid[c] # NoSession)
              => doc[sid[c]] \in {Blank, args[c].html}
        /\ (Converted(c) /\ pc[c] # "Options")
              => options[c] = ApplyOptions(getDefaultOptions, args[c].opts)
        /\ (Returned(c) /\ ret[c].err = NoErr)
              => ret[c].bytes = PdfOf(args[c].html)

\* One call has returned the PDF of its own page while the other, which
\* took the second session because the first was in use, has injected a
\* different page and waits for its load.
C6_Witness ==
    \E c1, c2 \in Callers :
        /\ Returned(c1) /\ ret[c1].err = NoErr
        /\ pc[c2] = "Wait" /\ sid[c2] \in live /\ (\E s \in SessionIds : s < sid[c2])
        /\ doc[sid[c2]] = args[c2].html
        /\ args[c1].html # args[c2].html

\* ------------------------------------------------------------------ C7
\* C7: a call on a missing file returns exactly ErrHTMLFileNotFound and no
\* bytes; on a file that cannot be read it returns another error, which
\* carries the path and wraps the cause; in both cases it has acquired no
\* session and issued no command.
C7_FileErrors ==
    \A c \in Callers :
        (Returned(c) /\ args[c].entry = "file"
             /\ ReadFile(args[c].path).err # NoErr) =>
            /\ ret[c].bytes = Nil
            /\ cmds[c] = << >> /\ resp[c] = << >> /\ sid[c] = NoSession
            /\ live = {}
            /\ IF ReadFile(args[c].path).err = ENOENT
               THEN ret[c].err = ErrHTMLFileNotFound
               ELSE /\ ret[c].err # ErrHTMLFileNotFound
                    /\ ret[c].err[1] = <<"failed to read file", args[c].path>>
                    /\ ErrorsIs(ret[c].err, ReadFile(args[c].path).err)

C7_Witness ==
    \E c \in Callers :
        /\ Returned(c) /\ args[c].path = "locked.html"
        /\ ret[c].err # ErrHTMLFileNotFound

\* ------------------------------------------------------------------ outcome
\* What a call of ConvertHtmlToPdf on html does, as a function of what the
\* environment answered: position 1 is the allocation, 2 the navigation,
\* 3 the frame-tree fetch (or the end of the navigation's wait), 4 the
\* content-set, 5 the print.
StepCmd(i, html) ==
    CASE i = 2 -> <<"Page.navigate", Blank>>
      [] i = 3 -> <<"Page.getFrameTree", "">>
      [] i = 4 -> <<"Page.setDocumentContent", html>>
      [] OTHER -> <<"Page.printToPDF", "">>
Sent(answer) == answer \in {"ok", "closed", "closed, partial", "ctx, sent"}
NumCmds(answers) ==
    IF Len(answers) <= 1 THEN 0
    ELSE IF Sent(Last(answers)) THEN Len(answers) - 1 ELSE Len(answers) - 2
ExpectedCmds(html, answers) ==
    [i \in 1..NumCmds(answers) |-> StepCmd(i + 1, html)]
CauseOf(answer) ==
    CASE answer \in {"ctx", "ctx, sent", "ctx, waiting"} -> CtxErr
      [] answer \in {"closed", "closed, partial"} -> ErrChannelClosed
      [] OTHER -> ErrExecNotFound
ExpectedRet(html, answers) ==
    IF Last(answers) = "ok"
    THEN [bytes |-> PdfOf(html), err |-> NoErr]
    ELSE [bytes |-> Nil,
          err |-> <<<<"failed to convert HTML to PDF">>>> \o CauseOf(Last(answers))]
CmdView(q) == [i \in 1..Len(q) |-> <<q[i][1], q[i][3]>>]

\* ------------------------------------------------------------------ C8
\* C8: a call of ConvertHtmlFileToPdf on a readable file runs ConvertHtmlToPdf
\* with the file's content and the caller's options, and what it does and
\* returns is what ConvertHtmlToPdf on that content does and returns for
\* the same answers of the environment.
C8_FileAsContent ==
    \A c \in Callers :
        (Converted(c) /\ args[c].entry = "file") =>
            /\ htmlContent[c] = ReadFile(args[c].path).b
            /\ opts[c] = args[c].opts
            /\ CmdView(cmds[c]) = ExpectedCmds(ReadFile(args[c].path).b, resp[c])
            /\ Returned(c) => ret[c] = ExpectedRet(ReadFile(args[c].path).b, resp[c])

\* The same holds of every direct call, so the two entry points agree.
C8_ContentAsContent ==
    \A c \in Callers :
        (Converted(c) /\ args[c].entry = "content") =>
            /\ htmlContent[c] = args[c].html
            /\ opts[c] = args[c].opts
            /\ CmdView(cmds[c]) = ExpectedCmds(args[c].html, resp[c])
            /\ Returned(c) => ret[c] = ExpectedRet(args[c].html, resp[c])

C8_Equivalent == C8_FileAsContent /\ C8_ContentAsContent

\* A file call with options has returned a PDF.
C8_Witness ==
    \E c \in Callers :
        /\ Returned(c) /\ args[c].entry = "file" /\ args[c].opts # << >>
        /\ ret[c].err = NoErr

C10_SinkIrrelevant ==
    /\ \A c \in Callers :
          Converted(c) =>
              /\ CmdView(cmds[c]) = ExpectedCmds(htmlContent[c], resp[c])
              /\ Returned(c) => ret[c] = ExpectedRet(htmlContent[c], resp[c])
              /\ logged[c] => debugf[c] # NilLogger
              /\ pc[c] \notin {"Options", "NewContext"}
                    => debugf[c] = options[c].logger
    /\ crashed => \E c \in Callers : wg[c] < 0

\* A call with WithLogger(nil) has returned a PDF with nothing written.
C10_Witness ==
    \E c \in Callers :
        /\ Returned(c) /\ args[c].opts = <<NilLogger>>
        /\ options[c].logger = NilLogger
        /\ ret[c].err = NoErr /\ ~logged[c]

\* ------------------------------------------------------------------ C11
\* C11: whatever calls came before, a call of ConvertHtmlToPdf starts with
\* no session, a zero counter, an empty buffer, the default options and no
\* command issued; the session it then acquires is new (blank page, no
\* pending event); its counter is 1 when its commands start; and when the
\* browser answers every step it returns the PDF of its own HTML.
Cooperating == <<"ok", "ok", "ok", "ok", "ok">>
C11_SelfContained ==
    \A c \in Callers :
        /\ pc[c] = "Options" =>
              /\ sid[c] = NoSession /\ wg[c] = 0 /\ buf[c] = Nil
              /\ options[c] = getDefaultOptions
              /\ cmds[c] = << >> /\ resp[c] = << >> /\ ~listening[c]
        /\ (pc[c] = "Navigate" /\ sid[c] \in live) =>
              /\ doc[sid[c]] = Blank /\ queue[sid[c]] = << >>
              /\ extra[sid[c]] = 0
        /\ pc[c] = "GetFrameTree" => wg[c] = 1 /\ buf[c] = Nil
        /\ (pc[c] \in {"Defer", "returned"} /\ resp[c] = Cooperating) =>
              /\ ret[c].err = NoErr
              /\ ret[c].bytes = PdfOf(args[c].html)
              /\ IsPdf(ret[c].bytes)

\* A call is about to return a PDF after earlier calls of the same caller
\* that succeeded, failed and were cancelled.
C11_Witness ==
    \E c \in Callers :
        /\ pc[c] = "Defer" /\ resp[c] = Cooperating
        /\ earlier[c] = {"ok", "failed", "cancelled"}

\* ------------------------------------------------------------------ C12
\* C12: the commands a call has issued are an initial part of navigate,
\* frame-tree fetch, content-set, print, each once; and the print is issued
\* only when the content-set was answered without error and the call's
\* listener has counted a load event (the counter left 1).
CommandOrder ==
    <<"Page.navigate", "Page.getFrameTree", "Page.setDocumentContent",
      "Page.printToPDF">>
C12_OrderedOnce ==
    \A c \in Callers :
        /\ Len(cmds[c]) <= Len(CommandOrder)
        /\ CmdNames(cmds[c]) = SubSeq(CommandOrder, 1, Len(cmds[c]))
        /\ (pc[c] = "PrintToPDF" \/ "Page.printToPDF" \in Range(CmdNames(cmds[c])))
              => /\ Len(resp[c]) >= 4 /\ resp[c][4] = "ok"
                 /\ cmds[c][3] = Cmd("Page.setDocumentContent", cmds[c][3][2],
                                     htmlContent[c])
                 /\ wg[c] <= 0

\* A call has issued the four commands and its print was refused: nothing
\* was issued again.
C12_Witness ==
    \E c \in Callers :
        /\ Returned(c) /\ Len(cmds[c]) = 4
        /\ resp[c] = <<"ok", "ok", "ok", "ok", "closed">>

\* ------------------------------------------------------------------ C13
\* C13: once a step of a call has failed, Run has ended: the call is at its
\* return, it has issued no command after the one that failed (no print
\* after a failed navigation, frame-tree fetch or content-set), and what it
\* returns is no bytes and an error whose chain holds the cause, also when
\* the failed print had produced bytes.
C13_FailureStops ==
    \A c \in Callers :
        (resp[c] # << >> /\ Last(resp[c]) # "ok") =>
            /\ pc[c] \in {"Defer", "returned"}
            /\ Len(cmds[c]) <= Len(resp[c]) - 1
            /\ Len(resp[c]) < 5 => "Page.printToPDF" \notin Range(CmdNames(cmds[c]))
            /\ ret[c].bytes = Nil
            /\ ret[c].err # NoErr
            /\ ErrorsIs(ret[c].err, CauseOf(Last(resp[c])))

\* The content-set of a call was refused: the call has returned without
\* having waited for a load event.
C13_Witness ==
    \E c \in Callers :
        /\ Returned(c) /\ resp[c] = <<"ok", "ok", "ok", "closed">>
        /\ wg[c] = 1 /\ Len(cmds[c]) = 3

\* ------------------------------------------------------------------ C14
\* C14: the completion counter of a call never drops below zero and the
\* process never panics, however many load events the session delivers.
C14_CounterNeverNegative ==
    /\ \A c \in Callers : wg[c] >= 0
    /\ ~crashed

\* ------------------------------------------------------------------ C15
\* C15: when the listener is registered no load event of the blank page is
\* pending, and none arrives before the content-set; so the counter leaves
\* 1 only after the content-set was answered without error, and the print
\* runs against the injected document, never the blank page.
NoLoadPending(c) ==
    sid[c] \in live => LoadEventFired \notin Range(queue[sid[c]])
C15_NoStaleLoad ==
    \A c \in Callers :
        /\ pc[c] = "Listen" => NoLoadPending(c)
        /\ pc[c] \in {"GetFrameTree", "SetDocumentContent"}
              => wg[c] = 1 /\ NoLoadPending(c)
        /\ (listening[c] /\ wg[c] <= 0)
              => Len(resp[c]) >= 4 /\ resp[c][4] = "ok"
        /\ (pc[c] = "PrintToPDF" /\ sid[c] \in live)
              => doc[sid[c]] = htmlContent[c] /\ doc[sid[c]] # Blank
        /\ (pc[c] \in {"Defer", "returned"} /\ ret[c].err = NoErr)
              => ret[c].bytes # PdfOf(Blank) /\ ret[c].bytes = PdfOf(htmlContent[c])

\* The wait of a call has been released and its print is about to run
\* against the injected document.
C15_Witness ==
    \E c \in Callers :
        /\ pc[c] = "PrintToPDF" /\ sid[c] \in live /\ ~crashed
        /\ wg[c] = 0 /\ doc[sid[c]] = htmlContent[c]

\* ------------------------------------------------------------------ C16
\* C16: the options a call works with have the default, non-nil sink when
\* no option was passed and otherwise the sink of the last WithLogger, nil
\* included; they have no field but logger, and the sink handed to chromedp
\* is that one.
C16_LastLoggerWins ==
    /\ getDefaultOptions.logger = LogPrintf /\ LogPrintf # NilLogger
    /\ \A c \in Callers :
          (Converted(c) /\ pc[c] # "Options") =>
              /\ options[c].logger =
                    IF args[c].opts = << >> THEN LogPrintf ELSE Last(args[c].opts)
              /\ DOMAIN options[c] = {"logger"}
              /\ pc[c] # "NewContext" => debugf[c] = options[c].logger

\* A call was given a custom sink and then nil, and works with nil.
C16_Witness ==
    \E c \in Callers :
        /\ Converted(c) /\ pc[c] = "Run"
        /\ args[c].opts = <<"custom", NilLogger>>
        /\ options[c].logger = NilLogger

====
